---- MODULE Spec2Model ----
(***************************************************************************)
(* Model of authd's persistent identity cache (internal/users/cache) and   *)
(* of the broker manager's session registry (internal/brokers).            *)
(***************************************************************************)
EXTENDS Integers, Sequences, FiniteSets, TLC

VARIABLES
    db,      \* the seven bbolt buckets, as committed
    now,     \* the wall clock time.Now() reads
    last,    \* the last cache call: what it returned and what it logged
    brokers,               \* Manager.brokers: broker ID -> Broker
    brokersOrder,          \* Manager.brokersOrder
    transactionsToBroker,  \* Manager.transactionsToBroker: session ID -> broker ID
    usersToBroker,         \* Manager.usersToBroker: user name -> broker ID
    lastM,   \* the last Manager call: its arguments, what it returned, its broker call
    brokerSessions,  \* the broker's side: session ID opened -> endSession successes
    pc,      \* thread -> the call it is running, where it is in it, its locals
    usersToBrokerMu,         \* Manager.usersToBrokerMu: who holds which side
    transactionsToBrokerMu,  \* Manager.transactionsToBrokerMu
    mu,      \* Cache.mu
    writeTx  \* the open read-write transaction of the database, if any

cacheVars == <<db, now, last>>
managerVars == <<brokers, brokersOrder, transactionsToBroker, usersToBroker, lastM,
                 brokerSessions>>
threadLocks == <<usersToBrokerMu, transactionsToBrokerMu, mu, writeTx>>
threadVars == <<pc, usersToBrokerMu, transactionsToBrokerMu, mu, writeTx>>
vars == <<db, now, last, brokers, brokersOrder, transactionsToBroker, usersToBroker,
          lastM, brokerSessions, pc, usersToBrokerMu, transactionsToBrokerMu, mu,
          writeTx>>

---------------------------------------------------------------------------
\* Threads and locks

\* The request handlers that run concurrently.
Threads == {"t1", "t2", "t3"}

\* A thread that runs no call.
idle == [op |-> "none", at |-> "idle"]

\* A sync.RWMutex: the threads that hold its read side and its write side.
unlocked == [readers |-> {}, writer |-> {}]

\* Lock and RLock return when the mutex is in these states.
canLock(m) == m.readers = {} /\ m.writer = {}
canRLock(m) == m.writer = {}

holds(m, t) == t \in m.readers \cup m.writer

\* The broker has opened no session.
noBrokerSessions == [id \in {} |-> 0]

\* No read-write transaction is open.
noTx == [owner |-> "none"]

\* RLock, RUnlock, Lock and Unlock by thread t.
rLock(m, t) == [m EXCEPT !.readers = @ \cup {t}]
rUnlock(m, t) == [m EXCEPT !.readers = @ \ {t}]
lock(m, t) == [m EXCEPT !.writer = @ \cup {t}]
unlock(m, t) == [m EXCEPT !.writer = @ \ {t}]

---------------------------------------------------------------------------
\* Input domains and bounds

Names == {"alice", "bob"}
UIDs == {1000, 1001}
Dirs == {"", "/home/alice", "/tmp/x"}
Gecoses == {"Alice", "Alice A."}
GroupNames == {"users", "dev"}
GIDs == {100, 2000}

\* Longest group list passed to UpdateUserEntry.
MaxGroups == 2
\* Last clock value.
MaxTime == 1

\* The UserDB and GroupDB values callers pass. Strings are valid UTF-8 text
\* and numbers fit uint32, so json.Marshal followed by json.Unmarshal gives
\* back the value that was stored.
UserDBs == [Name : Names, UID : UIDs, Dir : Dirs, Gecos : Gecoses]
GroupDBs == [Name : GroupNames, GID : GIDs] \ {[Name |-> "users", GID |-> 2000]}
GroupLists == UNION {[1..n -> GroupDBs] : n \in 0..MaxGroups}

\* Inputs of the membership specification: two users with one payload each.
MemberUserDBs ==
    {u \in UserDBs : /\ u.Dir = "/home/alice" /\ u.Gecos = "Alice"
                     /\ <<u.Name, u.UID>> \in {<<"alice", 1000>>, <<"bob", 1001>>}}

\* Inputs of the identity specification: three identities, two of them
\* claiming the same UID and two the same name, each with one payload.
IdentityUserDBs ==
    {u \in UserDBs : /\ u.Dir = "/home/alice" /\ u.Gecos = "Alice"
                     /\ <<u.Name, u.UID>> # <<"alice", 1001>>}

\* Group lists of the identity specification: groups that compete for GID
\* 100 and for the name dev, alone and after a group that is accepted.
IdentityGroupLists ==
    LET users == [Name |-> "users", GID |-> 100]
        dev == [Name |-> "dev", GID |-> 2000]
        dev100 == [Name |-> "dev", GID |-> 100]
    IN {<<>>, <<users>>, <<dev>>, <<dev100>>, <<users, dev>>, <<dev, users>>,
        <<users, dev100>>, <<users, users>>}

\* Inputs of the user-field specification: every payload of three
\* identities, few group lists.
FieldUserDBs == {u \in UserDBs : <<u.Name, u.UID>> # <<"bob", 1001>>}
FieldGroupLists == {<<>>, <<[Name |-> "users", GID |-> 100]>>}

---------------------------------------------------------------------------
\* Bucket encoding

userByIDBucketName == "UserByID"
userByNameBucketName == "UserByName"
groupByIDBucketName == "GroupByID"
groupByNameBucketName == "GroupByName"
userToGroupsBucketName == "UserToGroups"
groupToUsersBucketName == "GroupToUsers"
userToBrokerBucketName == "UserToBroker"

nil == "nil"
ErrUID == "UID already in use by a different user"
ErrGID == "GID already in use by a different group"

\* strconv.FormatUint(uint64(v), 10)
uintKey(v) == ToString(v)

\* Zero values getFromBucket returns with NoDataFoundError.
zeroUser == [Name |-> "", UID |-> 0, Dir |-> "", Gecos |-> "", LastLogin |-> 0]
zeroGroup == [Name |-> "", GID |-> 0]
zeroUserToGroups == [UID |-> 0, GIDs |-> <<>>]
zeroGroupToUsers == [GID |-> 0, UIDs |-> <<>>]

getFromBucket(bucket, key, zero) ==
    IF key \in DOMAIN bucket THEN bucket[key] ELSE zero

updateBucket(buckets, name, key, value) ==
    [buckets EXCEPT ![name] =
        IF key \in DOMAIN @ THEN [@ EXCEPT ![key] = value] ELSE @ @@ (key :> value)]

Contains(s, e) == \E i \in 1..Len(s) : s[i] = e

DeleteAll(s, e) == SelectSeq(s, LAMBDA x : x # e)

---------------------------------------------------------------------------
\* update.go

\* updateUser without the check of the name the UID is bound to.
updateUserUnchecked(buckets, userContent) ==
    LET existingUser == getFromBucket(buckets[userByIDBucketName],
                                      uintKey(userContent.UID), zeroUser)
        content == IF existingUser.Dir # "" /\ existingUser.Dir # userContent.Dir
                   THEN [userContent EXCEPT !.Dir = existingUser.Dir]
                   ELSE userContent
    IN [err |-> nil,
        buckets |-> updateBucket(
            updateBucket(buckets, userByIDBucketName, uintKey(content.UID), content),
            userByNameBucketName, content.Name, content)]

\* updateUser writing the home directory it is given.
updateUserOverwritingDir(buckets, userContent) ==
    LET existingUser == getFromBucket(buckets[userByIDBucketName],
                                      uintKey(userContent.UID), zeroUser)
    IN IF existingUser.Name # "" /\ existingUser.Name # userContent.Name
       THEN [err |-> ErrUID, buckets |-> buckets]
       ELSE [err |-> nil,
             buckets |-> updateBucket(
                 updateBucket(buckets, userByIDBucketName, uintKey(userContent.UID),
                              userContent),
                 userByNameBucketName, userContent.Name, userContent)]

\* updateUser writing the cached home directory to the UID index only.
updateUserByNameAsGiven(buckets, userContent) ==
    LET existingUser == getFromBucket(buckets[userByIDBucketName],
                                      uintKey(userContent.UID), zeroUser)
        content == IF existingUser.Dir # "" /\ existingUser.Dir # userContent.Dir
                   THEN [userContent EXCEPT !.Dir = existingUser.Dir]
                   ELSE userContent
    IN IF existingUser.Name # "" /\ existingUser.Name # userContent.Name
       THEN [err |-> ErrUID, buckets |-> buckets]
       ELSE [err |-> nil,
             buckets |-> updateBucket(
                 updateBucket(buckets, userByIDBucketName, uintKey(content.UID), content),
                 userByNameBucketName, userContent.Name, userContent)]

updateUser(buckets, userContent) ==
    LET existingUser == getFromBucket(buckets[userByIDBucketName],
                                      uintKey(userContent.UID), zeroUser)
        content == IF existingUser.Dir # "" /\ existingUser.Dir # userContent.Dir
                   THEN [userContent EXCEPT !.Dir = existingUser.Dir]
                   ELSE userContent
    IN IF existingUser.Name # "" /\ existingUser.Name # userContent.Name
       THEN [err |-> ErrUID, buckets |-> buckets]
       ELSE [err |-> nil,
             buckets |-> updateBucket(
                 updateBucket(buckets, userByIDBucketName, uintKey(content.UID), content),
                 userByNameBucketName, content.Name, content)]

RECURSIVE updateGroups(_, _)
updateGroups(buckets, groupContents) ==
    IF groupContents = <<>> THEN [err |-> nil, buckets |-> buckets]
    ELSE LET groupContent == Head(groupContents)
             existingGroup == getFromBucket(buckets[groupByIDBucketName],
                                            uintKey(groupContent.GID), zeroGroup)
             g == [Name |-> groupContent.Name, GID |-> groupContent.GID]
         IN IF existingGroup.Name # "" /\ existingGroup.Name # groupContent.Name
            THEN [err |-> ErrGID, buckets |-> buckets]
            ELSE updateGroups(
                    updateBucket(
                        updateBucket(buckets, groupByIDBucketName, uintKey(g.GID), g),
                        groupByNameBucketName, g.Name, g),
                    Tail(groupContents))

\* Load group_to_users[gid], remove uid, write back; the edge is kept even
\* when it becomes empty.
deleteUserFromGroup(buckets, uid, gid) ==
    LET groupToUsers == getFromBucket(buckets[groupToUsersBucketName],
                                      uintKey(gid), zeroGroupToUsers)
    IN updateBucket(buckets, groupToUsersBucketName, uintKey(gid),
                    [GID |-> gid, UIDs |-> DeleteAll(groupToUsers.UIDs, uid)])

\* The first loop without its writes: the reverse edges are never stored.
addUserToGroupsNotWritten(buckets, uid, groupContents) == buckets

\* The first loop without its slices.Contains test.
RECURSIVE addUserToGroupsAlwaysAppending(_, _, _)
addUserToGroupsAlwaysAppending(buckets, uid, groupContents) ==
    IF groupContents = <<>> THEN buckets
    ELSE LET gid == Head(groupContents).GID
             grpToUsers == getFromBucket(buckets[groupToUsersBucketName],
                                         uintKey(gid), zeroGroupToUsers)
         IN addUserToGroupsAlwaysAppending(
                updateBucket(buckets, groupToUsersBucketName, uintKey(gid),
                             [GID |-> gid, UIDs |-> Append(grpToUsers.UIDs, uid)]),
                uid, Tail(groupContents))

\* The first loop run only for the groups that are new relative to the
\* forward edge stored for uid.
RECURSIVE addUserToGroupsOnlyNew(_, _, _)
addUserToGroupsOnlyNew(buckets, uid, groupContents) ==
    IF groupContents = <<>> THEN buckets
    ELSE LET gid == Head(groupContents).GID
             previous == getFromBucket(buckets[userToGroupsBucketName], uintKey(uid),
                                       zeroUserToGroups)
             grpToUsers == getFromBucket(buckets[groupToUsersBucketName],
                                         uintKey(gid), zeroGroupToUsers)
             uids == IF Contains(grpToUsers.UIDs, uid) THEN grpToUsers.UIDs
                     ELSE Append(grpToUsers.UIDs, uid)
         IN addUserToGroupsOnlyNew(
                IF Contains(previous.GIDs, gid) THEN buckets
                ELSE updateBucket(buckets, groupToUsersBucketName, uintKey(gid),
                                  [GID |-> gid, UIDs |-> uids]),
                uid, Tail(groupContents))

\* First loop of updateUsersAndGroups: the reverse edges of every group given.
RECURSIVE addUserToGroups(_, _, _)
addUserToGroups(buckets, uid, groupContents) ==
    IF groupContents = <<>> THEN buckets
    ELSE LET gid == Head(groupContents).GID
             grpToUsers == getFromBucket(buckets[groupToUsersBucketName],
                                         uintKey(gid), zeroGroupToUsers)
             uids == IF Contains(grpToUsers.UIDs, uid) THEN grpToUsers.UIDs
                     ELSE Append(grpToUsers.UIDs, uid)
         IN addUserToGroups(
                updateBucket(buckets, groupToUsersBucketName, uintKey(gid),
                             [GID |-> gid, UIDs |-> uids]),
                uid, Tail(groupContents))

\* The second loop left out: no previous group is cleaned.
removeUserFromPreviousSkipped(buckets, uid, currentGIDs, previousGIDs) == buckets

\* Second loop of updateUsersAndGroups: the groups the user has left.
RECURSIVE removeUserFromPrevious(_, _, _, _)
removeUserFromPrevious(buckets, uid, currentGIDs, previousGIDs) ==
    IF previousGIDs = <<>> THEN buckets
    ELSE LET previousGID == Head(previousGIDs)
         IN removeUserFromPrevious(
                IF Contains(currentGIDs, previousGID) THEN buckets
                ELSE deleteUserFromGroup(buckets, uid, previousGID),
                uid, currentGIDs, Tail(previousGIDs))

updateUsersAndGroups(buckets, uid, groupContents, previousGIDs) ==
    LET currentGIDs == [i \in 1..Len(groupContents) |-> groupContents[i].GID]
        added == addUserToGroups(buckets, uid, groupContents)
        forward == updateBucket(added, userToGroupsBucketName, uintKey(uid),
                                [UID |-> uid, GIDs |-> currentGIDs])
    IN [err |-> nil,
        buckets |-> removeUserFromPrevious(forward, uid, currentGIDs, previousGIDs)]

\* The function UpdateUserEntry hands to c.db.Update: its error and the
\* buckets of the transaction when it returns.
updateUserEntryTx(buckets, userDB, groupContents) ==
    LET previousGroupsForCurrentUser ==
            getFromBucket(buckets[userToGroupsBucketName], uintKey(userDB.UID),
                          zeroUserToGroups)
        r1 == updateUser(buckets, userDB)
        r2 == updateGroups(r1.buckets, groupContents)
    IN IF r1.err # nil THEN r1
       ELSE IF r2.err # nil THEN r2
       ELSE updateUsersAndGroups(r2.buckets, userDB.UID, groupContents,
                                 previousGroupsForCurrentUser.GIDs)

\* A db.Update that keeps the writes of a function that returned an error.
dbUpdateAlwaysCommitting(buckets, res) == res.buckets

\* bbolt's db.Update: commit when the function returns nil, roll back otherwise.
dbUpdate(buckets, res) == IF res.err = nil THEN res.buckets ELSE buckets

emptyBucket == [k \in {} |-> zeroGroup]

emptyDB ==
    [b \in {userByIDBucketName, userByNameBucketName, groupByIDBucketName,
            groupByNameBucketName, userToGroupsBucketName, groupToUsersBucketName,
            userToBrokerBucketName} |-> emptyBucket]

\* The cache after New on an empty database file; no Manager is built.
Init ==
    /\ db = emptyDB
    /\ now = 0
    /\ last = [op |-> "none", err |-> nil, homedirKept |-> FALSE, dirty |-> FALSE,
            repaired |-> FALSE]
    /\ brokers = [id \in {} |-> ""]
    /\ brokersOrder = <<>>
    /\ transactionsToBroker = [id \in {} |-> ""]
    /\ usersToBroker = [id \in {} |-> ""]
    /\ lastM = [op |-> "none"]
    /\ brokerSessions = noBrokerSessions
    /\ pc = [t \in Threads |-> idle]
    /\ usersToBrokerMu = unlocked
    /\ transactionsToBrokerMu = unlocked
    /\ mu = unlocked
    /\ writeTx = noTx

\* userDB{UserDB: usr, LastLogin: time.Now()}
userDBAt(usr, t) ==
    [Name |-> usr.Name, UID |-> usr.UID, Dir |-> usr.Dir, Gecos |-> usr.Gecos,
     LastLogin |-> t]

\* The buckets after UpdateUserEntry(usr, groupContents) called at time t.
afterUpdateUserEntry(buckets, usr, groupContents, t) ==
    dbUpdate(buckets, updateUserEntryTx(buckets, userDBAt(usr, t), groupContents))

\* The error UpdateUserEntry(usr, groupContents) returns.
errUpdateUserEntry(buckets, usr, groupContents) ==
    updateUserEntryTx(buckets, userDBAt(usr, 0), groupContents).err

\* Whether updateUser logs that the cached home directory is kept.
homedirWarning(buckets, usr) ==
    LET existingUser == getFromBucket(buckets[userByIDBucketName], uintKey(usr.UID),
                                      zeroUser)
    IN /\ ~(existingUser.Name # "" /\ existingUser.Name # usr.Name)
       /\ existingUser.Dir # "" /\ existingUser.Dir # usr.Dir

\* Whether a group of groupContents is already in the forward edge of uid
\* while its reverse edge lacks uid or does not exist.
drifted(buckets, uid, groupContents) ==
    LET previous == getFromBucket(buckets[userToGroupsBucketName], uintKey(uid),
                                  zeroUserToGroups)
    IN \E i \in 1..Len(groupContents) :
          LET gid == groupContents[i].GID
              grpToUsers == getFromBucket(buckets[groupToUsersBucketName],
                                          uintKey(gid), zeroGroupToUsers)
          IN Contains(previous.GIDs, gid) /\ ~Contains(grpToUsers.UIDs, uid)

UpdateUserEntry(usr, groupContents) ==
    LET res == updateUserEntryTx(db, userDBAt(usr, now), groupContents)
    IN /\ db' = dbUpdate(db, res)
       /\ last' = [op |-> "UpdateUserEntry", err |-> res.err,
                   homedirKept |-> homedirWarning(db, usr),
                   dirty |-> res.err # nil /\ res.buckets # db,
                   repaired |-> res.err = nil /\ drifted(db, usr.UID, groupContents)]
       /\ UNCHANGED <<now, managerVars, threadVars>>

\* Time passes between two calls.
Tick ==
    /\ now < MaxTime
    /\ now' = now + 1
    /\ UNCHANGED <<db, last, managerVars, threadVars>>

---------------------------------------------------------------------------
\* manager.go

localBrokerName == "local"

\* Broker configuration files, and the broker lists NewManager is given
\* (<<>>: auto-detect from the configuration directory).
BrokerNames == {"example-broker", "other-broker"}
\* What os.ReadDir returns for the configuration directory, sorted by file
\* name, and the names NewManager keeps of it: those of the regular files.
ReadDirEntries ==
    <<[Name |-> "example-broker", IsRegular |-> TRUE],
      [Name |-> "examples.d", IsRegular |-> FALSE],
      [Name |-> "other-broker", IsRegular |-> TRUE]>>
BrokerDirEntries ==
    LET regular == SelectSeq(ReadDirEntries, LAMBDA e : e.IsRegular)
    IN [i \in 1..Len(regular) |-> regular[i].Name]
ConfiguredBrokerLists ==
    {<<>>, <<"example-broker">>, <<"example-broker", "other-broker">>,
     <<"other-broker", "example-broker">>, <<"other-broker", "other-broker">>}

\* What callers pass and what brokers answer.
BrokerIDs == BrokerNames \cup {localBrokerName, "unknown-broker"}
SessionIDs == {"", "session-1", "session-2"}
Usernames == {"alice", "bob", "carol"}
Langs == {"en_US"}
ErrInvalidBroker == "invalid broker"
ErrNoSession == "no broker found for session"
ErrBroker == "broker call failed"

\* The (sessionID, encryptionKey, err) a broker's newSession returns.
NewSessionReplies ==
    [sessionID : SessionIDs, encryptionKey : {"key"}, err : {nil}]
        \cup {[sessionID |-> "", encryptionKey |-> "", err |-> ErrBroker],
              [sessionID |-> "session-1", encryptionKey |-> "key", err |-> ErrBroker]}

\* The error a broker's endSession returns.
EndSessionReplies == {nil, ErrBroker}

\* newBroker: the broker named name, whose ID is its name; it fails when
\* the configuration file cannot be used.
newBroker(name, broken) ==
    [ID |-> name, err |-> IF name \in broken THEN "bad configuration" ELSE nil]

\* A NewManager that stops loading at the first broker that fails.
NewManagerStoppingAtFailure(configuredBrokers, broken) ==
    LET names == IF Len(configuredBrokers) = 0 THEN BrokerDirEntries
                 ELSE configuredBrokers
        failures == {i \in 1..Len(names) : newBroker(names[i], broken).err # nil}
        loaded == IF failures = {} THEN names
                  ELSE SubSeq(names, 1, (CHOOSE i \in failures :
                                             \A j \in failures : i <= j) - 1)
        order == <<newBroker(localBrokerName, {}).ID>> \o loaded
    IN [brokers |-> [id \in {order[i] : i \in 1..Len(order)} |-> [ID |-> id]],
        brokersOrder |-> order,
        err |-> nil]

\* The registry NewManager builds from configuredBrokers, when the
\* configuration files of broken cannot be loaded.
NewManager(configuredBrokers, broken) ==
    LET names == IF Len(configuredBrokers) = 0 THEN BrokerDirEntries
                 ELSE configuredBrokers
        loaded == SelectSeq(names, LAMBDA n : newBroker(n, broken).err = nil)
        order == <<newBroker(localBrokerName, {}).ID>> \o
                 [i \in 1..Len(loaded) |-> newBroker(loaded[i], broken).ID]
    IN [brokers |-> [id \in {order[i] : i \in 1..Len(order)} |-> [ID |-> id]],
        brokersOrder |-> order,
        err |-> nil]

\* Manager.AvailableBrokers
AvailableBrokers(bs, order) == [i \in 1..Len(order) |-> bs[order[i]]]

noSessions == [id \in {} |-> localBrokerName]
noPins == [username \in {} |-> localBrokerName]

brokerFromID(bs, id) ==
    IF id \in DOMAIN bs THEN [broker |-> bs[id].ID, err |-> nil]
    ELSE [broker |-> "", err |-> ErrInvalidBroker]

\* A BrokerFromSessionID that consults the index before the sentinel.
BrokerFromSessionIDIndexFirst(bs, sessions, id) ==
    IF id \in DOMAIN sessions THEN [broker |-> sessions[id], err |-> nil]
    ELSE IF id = "" THEN brokerFromID(bs, localBrokerName)
    ELSE [broker |-> "", err |-> ErrNoSession]

BrokerFromSessionID(bs, sessions, id) ==
    IF id = "" THEN brokerFromID(bs, localBrokerName)
    ELSE IF id \in DOMAIN sessions THEN [broker |-> sessions[id], err |-> nil]
    ELSE [broker |-> "", err |-> ErrNoSession]

\* A NewSession that stores the session id its broker answered with before
\* it looks at the broker's error.
newSessionOutcomeRecordingFirst(bs, sessions, brokerID, reply) ==
    LET b == brokerFromID(bs, brokerID)
        recorded == IF reply.sessionID \in DOMAIN sessions
                    THEN [sessions EXCEPT ![reply.sessionID] = b.broker]
                    ELSE sessions @@ (reply.sessionID :> b.broker)
    IN IF b.err # nil
       THEN [sessionID |-> "", encryptionKey |-> "", err |-> ErrInvalidBroker,
             called |-> FALSE, transactionsToBroker |-> sessions]
       ELSE IF reply.err # nil
       THEN [sessionID |-> "", encryptionKey |-> "", err |-> reply.err,
             called |-> TRUE, transactionsToBroker |-> recorded]
       ELSE [sessionID |-> reply.sessionID, encryptionKey |-> reply.encryptionKey,
             err |-> nil, called |-> TRUE, transactionsToBroker |-> recorded]

\* Manager.NewSession when the broker, if it is called, answers reply: what
\* it returns, whether the broker was called, and the session index after it.
newSessionOutcome(bs, sessions, brokerID, reply) ==
    LET b == brokerFromID(bs, brokerID)
    IN IF b.err # nil
       THEN [sessionID |-> "", encryptionKey |-> "", err |-> ErrInvalidBroker,
             called |-> FALSE, transactionsToBroker |-> sessions]
       ELSE IF reply.err # nil
       THEN [sessionID |-> "", encryptionKey |-> "", err |-> reply.err,
             called |-> TRUE, transactionsToBroker |-> sessions]
       ELSE [sessionID |-> reply.sessionID, encryptionKey |-> reply.encryptionKey,
             err |-> nil, called |-> TRUE,
             transactionsToBroker |->
                 IF reply.sessionID \in DOMAIN sessions
                 THEN [sessions EXCEPT ![reply.sessionID] = b.broker]
                 ELSE sessions @@ (reply.sessionID :> b.broker)]

\* An EndSession that removes the entry before it looks at the broker's error.
endSessionOutcomeRemovingFirst(bs, sessions, sessionID, replyErr) ==
    LET b == BrokerFromSessionID(bs, sessions, sessionID)
        removed == [id \in DOMAIN sessions \ {sessionID} |-> sessions[id]]
    IN IF b.err # nil
       THEN [err |-> b.err, called |-> FALSE, transactionsToBroker |-> sessions]
       ELSE [err |-> replyErr, called |-> TRUE, transactionsToBroker |-> removed]

\* Manager.EndSession when the broker, if it is called, answers replyErr.
endSessionOutcome(bs, sessions, sessionID, replyErr) ==
    LET b == BrokerFromSessionID(bs, sessions, sessionID)
    IN IF b.err # nil
       THEN [err |-> b.err, called |-> FALSE, transactionsToBroker |-> sessions]
       ELSE IF replyErr # nil
       THEN [err |-> replyErr, called |-> TRUE, transactionsToBroker |-> sessions]
       ELSE [err |-> nil, called |-> TRUE,
             transactionsToBroker |->
                 [id \in DOMAIN sessions \ {sessionID} |-> sessions[id]]]

\* An empty cache and the Manager NewManager returns.
InitManager ==
    /\ db = emptyDB
    /\ now = 0
    /\ last = [op |-> "none", err |-> nil, homedirKept |-> FALSE, dirty |-> FALSE,
            repaired |-> FALSE]
    /\ \E configuredBrokers \in ConfiguredBrokerLists, broken \in SUBSET BrokerNames :
          LET m == NewManager(configuredBrokers, broken)
          IN /\ brokers = m.brokers
             /\ brokersOrder = m.brokersOrder
             /\ lastM = [op |-> "NewManager", brokerID |-> "", sessionID |-> "",
                         encryptionKey |-> "", err |-> m.err, called |-> FALSE,
                         configuredBrokers |-> configuredBrokers, broken |-> broken]
    /\ brokerSessions = noBrokerSessions
    /\ transactionsToBroker = noSessions
    /\ usersToBroker = noPins
    /\ pc = [t \in Threads |-> idle]
    /\ usersToBrokerMu = unlocked
    /\ transactionsToBrokerMu = unlocked
    /\ mu = unlocked
    /\ writeTx = noTx

NewSession(brokerID, username, lang) ==
    \E reply \in NewSessionReplies :
        LET r == newSessionOutcome(brokers, transactionsToBroker, brokerID, reply)
        IN /\ transactionsToBroker' = r.transactionsToBroker
           /\ lastM' = [op |-> "NewSession", brokerID |-> brokerID,
                        sessionID |-> r.sessionID, encryptionKey |-> r.encryptionKey,
                        err |-> r.err, called |-> r.called]
           /\ UNCHANGED <<brokers, brokersOrder, usersToBroker, brokerSessions,
                        cacheVars, threadVars>>

EndSession(sessionID) ==
    \E replyErr \in EndSessionReplies :
        LET r == endSessionOutcome(brokers, transactionsToBroker, sessionID, replyErr)
        IN /\ transactionsToBroker' = r.transactionsToBroker
           /\ lastM' = [op |-> "EndSession", brokerID |-> "",
                        sessionID |-> sessionID, encryptionKey |-> "",
                        err |-> r.err, called |-> r.called]
           /\ UNCHANGED <<brokers, brokersOrder, usersToBroker, brokerSessions,
                        cacheVars, threadVars>>

\* A SetDefaultBrokerForUser that pins brokerID without resolving it.
setDefaultBrokerOutcomeUnvalidated(bs, pins, brokerID, username) ==
    [err |-> nil,
     usersToBroker |-> IF username \in DOMAIN pins
                       THEN [pins EXCEPT ![username] = brokerID]
                       ELSE pins @@ (username :> brokerID)]

\* Manager.SetDefaultBrokerForUser: what it returns and the pins after it.
setDefaultBrokerOutcome(bs, pins, brokerID, username) ==
    LET b == brokerFromID(bs, brokerID)
    IN IF b.err # nil
       THEN [err |-> ErrInvalidBroker, usersToBroker |-> pins]
       ELSE [err |-> nil,
             usersToBroker |-> IF username \in DOMAIN pins
                               THEN [pins EXCEPT ![username] = b.broker]
                               ELSE pins @@ (username :> b.broker)]

\* Manager.BrokerForUser: the pinned broker, or the nil *Broker of a map miss.
BrokerForUser(pins, username) ==
    IF username \in DOMAIN pins THEN pins[username] ELSE nil

SetDefaultBrokerForUser(brokerID, username) ==
    LET r == setDefaultBrokerOutcome(brokers, usersToBroker, brokerID, username)
    IN /\ usersToBroker' = r.usersToBroker
       /\ lastM' = [op |-> "SetDefaultBrokerForUser", brokerID |-> brokerID,
                    sessionID |-> "", encryptionKey |-> "",
                    err |-> r.err, called |-> FALSE]
       /\ UNCHANGED <<brokers, brokersOrder, transactionsToBroker, brokerSessions,
                    cacheVars, threadVars>>

NextManager ==
    \/ \E brokerID \in BrokerIDs, username \in Usernames, lang \in Langs :
          NewSession(brokerID, username, lang)
    \/ \E sessionID \in SessionIDs : EndSession(sessionID)

SpecManager == InitManager /\ [][NextManager]_vars

---------------------------------------------------------------------------
\* Specifications

\* Membership specification: UpdateUserEntry over every group list.
Next ==
    \E usr \in MemberUserDBs, groupContents \in GroupLists :
        UpdateUserEntry(usr, groupContents)

Spec == Init /\ [][Next]_vars

\* Identity specification: users and groups that compete for UIDs, GIDs
\* and names.
NextIdentity ==
    \E usr \in IdentityUserDBs, groupContents \in IdentityGroupLists :
        UpdateUserEntry(usr, groupContents)

SpecIdentity == Init /\ [][NextIdentity]_vars

\* User-field specification: UpdateUserEntry over every user payload, at
\* different times.
NextUserFields ==
    \/ \E usr \in FieldUserDBs, groupContents \in FieldGroupLists :
          UpdateUserEntry(usr, groupContents)
    \/ Tick

SpecUserFields == Init /\ [][NextUserFields]_vars

\* The Manager under calls of SetDefaultBrokerForUser.
NextPins ==
    \E brokerID \in BrokerIDs, username \in Usernames :
        SetDefaultBrokerForUser(brokerID, username)

SpecPins == InitManager /\ [][NextPins]_vars

---------------------------------------------------------------------------
\* manager.go: the Manager's methods run by concurrent threads, one step per
\* lock operation, map access and broker call

ThreadBrokerIDs == {"example-broker", "unknown-broker"}
ThreadSessionIDs == {"", "session-1"}
ThreadUsernames == {"alice"}
ThreadNewSessionReplies ==
    {[sessionID |-> "session-1", encryptionKey |-> "key", err |-> nil],
     [sessionID |-> "", encryptionKey |-> "", err |-> ErrBroker]}

\* BrokerFromSessionID's deferred RUnlock left out: the read side stays held.
sessionLookupDoneKeepingRLock(m, t) == m

\* What BrokerFromSessionID's deferred RUnlock leaves of the mutex when the
\* lookup returns.
sessionLookupDone(m, t) == rUnlock(m, t)

\* NewSession up to its broker call: the broker is resolved, then called.
NewSessionBegin(t, brokerID) ==
    /\ pc[t] = idle
    /\ pc' = [pc EXCEPT ![t] =
                 IF brokerFromID(brokers, brokerID).err # nil THEN idle
                 ELSE [op |-> "NewSession", at |-> "newSession",
                       broker |-> brokerFromID(brokers, brokerID).broker]]
    /\ UNCHANGED <<cacheVars, managerVars, usersToBrokerMu, transactionsToBrokerMu,
                   mu, writeTx>>

\* The broker answers newSession: on error NewSession returns, otherwise it
\* goes on to transactionsToBrokerMu.Lock().
NewSessionBrokerReturns(t) ==
    /\ pc[t].op = "NewSession" /\ pc[t].at = "newSession"
    /\ \E reply \in ThreadNewSessionReplies :
          pc' = [pc EXCEPT ![t] =
                    IF reply.err # nil THEN idle
                    ELSE [op |-> "NewSession", at |-> "Lock", broker |-> pc[t].broker,
                          sessionID |-> reply.sessionID]]
    /\ UNCHANGED <<cacheVars, managerVars, usersToBrokerMu, transactionsToBrokerMu,
                   mu, writeTx>>

\* transactionsToBrokerMu.Lock() of NewSession and of EndSession.
TransactionsLock(t) ==
    /\ pc[t].op \in {"NewSession", "EndSession"} /\ pc[t].at = "Lock"
    /\ canLock(transactionsToBrokerMu)
    /\ transactionsToBrokerMu' = lock(transactionsToBrokerMu, t)
    /\ pc' = [pc EXCEPT ![t].at = "locked"]
    /\ UNCHANGED <<cacheVars, managerVars, usersToBrokerMu, mu, writeTx>>

\* m.transactionsToBroker[sessionID] = broker, the deferred Unlock, return.
NewSessionStore(t) ==
    /\ pc[t].op = "NewSession" /\ pc[t].at = "locked"
    /\ transactionsToBroker' =
           IF pc[t].sessionID \in DOMAIN transactionsToBroker
           THEN [transactionsToBroker EXCEPT ![pc[t].sessionID] = pc[t].broker]
           ELSE transactionsToBroker @@ (pc[t].sessionID :> pc[t].broker)
    /\ transactionsToBrokerMu' = unlock(transactionsToBrokerMu, t)
    /\ pc' = [pc EXCEPT ![t] = idle]
    /\ UNCHANGED <<cacheVars, brokers, brokersOrder, usersToBroker, lastM,
                   brokerSessions,
                   usersToBrokerMu, mu, writeTx>>

\* EndSession and BrokerFromSessionID are called.
EndSessionBegin(t, sessionID) ==
    /\ pc[t] = idle
    /\ pc' = [pc EXCEPT ![t] = [op |-> "EndSession", at |-> "RLock",
                                sessionID |-> sessionID]]
    /\ UNCHANGED <<cacheVars, managerVars, usersToBrokerMu, transactionsToBrokerMu,
                   mu, writeTx>>

BrokerFromSessionIDBegin(t, sessionID) ==
    /\ pc[t] = idle
    /\ pc' = [pc EXCEPT ![t] = [op |-> "BrokerFromSessionID", at |-> "RLock",
                                sessionID |-> sessionID]]
    /\ UNCHANGED <<cacheVars, managerVars, usersToBrokerMu, transactionsToBrokerMu,
                   mu, writeTx>>

\* transactionsToBrokerMu.RLock() of BrokerFromSessionID.
TransactionsRLock(t) ==
    /\ pc[t].op \in {"EndSession", "BrokerFromSessionID"} /\ pc[t].at = "RLock"
    /\ canRLock(transactionsToBrokerMu)
    /\ transactionsToBrokerMu' = rLock(transactionsToBrokerMu, t)
    /\ pc' = [pc EXCEPT ![t].at = "rlocked"]
    /\ UNCHANGED <<cacheVars, managerVars, usersToBrokerMu, mu, writeTx>>

\* BrokerFromSessionID reads the map and returns; EndSession returns its
\* error or calls the broker's endSession.
TransactionsLookup(t) ==
    /\ pc[t].op \in {"EndSession", "BrokerFromSessionID"} /\ pc[t].at = "rlocked"
    /\ transactionsToBrokerMu' = sessionLookupDone(transactionsToBrokerMu, t)
    /\ LET b == BrokerFromSessionID(brokers, transactionsToBroker, pc[t].sessionID)
       IN pc' = [pc EXCEPT ![t] =
                    IF pc[t].op = "BrokerFromSessionID" \/ b.err # nil THEN idle
                    ELSE [op |-> "EndSession", at |-> "endSession",
                          sessionID |-> pc[t].sessionID, broker |-> b.broker]]
    /\ UNCHANGED <<cacheVars, managerVars, usersToBrokerMu, mu, writeTx>>

\* The broker answers endSession: on error EndSession returns, otherwise it
\* goes on to transactionsToBrokerMu.Lock().
EndSessionBrokerReturns(t) ==
    /\ pc[t].op = "EndSession" /\ pc[t].at = "endSession"
    /\ \E replyErr \in EndSessionReplies :
          pc' = [pc EXCEPT ![t] = IF replyErr # nil THEN idle
                                  ELSE [pc[t] EXCEPT !.at = "Lock"]]
    /\ UNCHANGED <<cacheVars, managerVars, usersToBrokerMu, transactionsToBrokerMu,
                   mu, writeTx>>

\* delete(m.transactionsToBroker, sessionID), Unlock, return.
EndSessionDelete(t) ==
    /\ pc[t].op = "EndSession" /\ pc[t].at = "locked"
    /\ transactionsToBroker' =
           [id \in DOMAIN transactionsToBroker \ {pc[t].sessionID} |->
               transactionsToBroker[id]]
    /\ transactionsToBrokerMu' = unlock(transactionsToBrokerMu, t)
    /\ pc' = [pc EXCEPT ![t] = idle]
    /\ UNCHANGED <<cacheVars, brokers, brokersOrder, usersToBroker, lastM,
                   brokerSessions,
                   usersToBrokerMu, mu, writeTx>>

\* SetDefaultBrokerForUser up to usersToBrokerMu.Lock(): the broker is resolved.
SetDefaultBrokerForUserBegin(t, brokerID, username) ==
    /\ pc[t] = idle
    /\ pc' = [pc EXCEPT ![t] =
                 IF brokerFromID(brokers, brokerID).err # nil THEN idle
                 ELSE [op |-> "SetDefaultBrokerForUser", at |-> "Lock",
                       broker |-> brokerFromID(brokers, brokerID).broker,
                       username |-> username]]
    /\ UNCHANGED <<cacheVars, managerVars, usersToBrokerMu, transactionsToBrokerMu,
                   mu, writeTx>>

UsersLock(t) ==
    /\ pc[t].op = "SetDefaultBrokerForUser" /\ pc[t].at = "Lock"
    /\ canLock(usersToBrokerMu)
    /\ usersToBrokerMu' = lock(usersToBrokerMu, t)
    /\ pc' = [pc EXCEPT ![t].at = "locked"]
    /\ UNCHANGED <<cacheVars, managerVars, transactionsToBrokerMu, mu, writeTx>>

\* m.usersToBroker[username] = broker, the deferred Unlock, return.
SetDefaultBrokerForUserStore(t) ==
    /\ pc[t].op = "SetDefaultBrokerForUser" /\ pc[t].at = "locked"
    /\ usersToBroker' =
           IF pc[t].username \in DOMAIN usersToBroker
           THEN [usersToBroker EXCEPT ![pc[t].username] = pc[t].broker]
           ELSE usersToBroker @@ (pc[t].username :> pc[t].broker)
    /\ usersToBrokerMu' = unlock(usersToBrokerMu, t)
    /\ pc' = [pc EXCEPT ![t] = idle]
    /\ UNCHANGED <<cacheVars, brokers, brokersOrder, transactionsToBroker, lastM,
                   brokerSessions,
                   transactionsToBrokerMu, mu, writeTx>>

BrokerForUserBegin(t, username) ==
    /\ pc[t] = idle
    /\ pc' = [pc EXCEPT ![t] = [op |-> "BrokerForUser", at |-> "RLock",
                                username |-> username]]
    /\ UNCHANGED <<cacheVars, managerVars, usersToBrokerMu, transactionsToBrokerMu,
                   mu, writeTx>>

UsersRLock(t) ==
    /\ pc[t].op = "BrokerForUser" /\ pc[t].at = "RLock"
    /\ canRLock(usersToBrokerMu)
    /\ usersToBrokerMu' = rLock(usersToBrokerMu, t)
    /\ pc' = [pc EXCEPT ![t].at = "rlocked"]
    /\ UNCHANGED <<cacheVars, managerVars, transactionsToBrokerMu, mu, writeTx>>

\* return m.usersToBroker[username], with the deferred RUnlock.
BrokerForUserRead(t) ==
    /\ pc[t].op = "BrokerForUser" /\ pc[t].at = "rlocked"
    /\ usersToBrokerMu' = rUnlock(usersToBrokerMu, t)
    /\ pc' = [pc EXCEPT ![t] = idle]
    /\ UNCHANGED <<cacheVars, managerVars, transactionsToBrokerMu, mu, writeTx>>

\* The Manager built for the brokers example-broker and other-broker, the
\* second of which failed to load.
InitThreads ==
    /\ db = emptyDB
    /\ now = 0
    /\ last = [op |-> "none", err |-> nil, homedirKept |-> FALSE, dirty |-> FALSE,
               repaired |-> FALSE]
    /\ brokers = NewManager(<<"example-broker", "other-broker">>,
                            {"other-broker"}).brokers
    /\ brokersOrder = NewManager(<<"example-broker", "other-broker">>,
                                 {"other-broker"}).brokersOrder
    /\ transactionsToBroker = noSessions
    /\ usersToBroker = noPins
    /\ lastM = [op |-> "none"]
    /\ brokerSessions = noBrokerSessions
    /\ pc = [t \in Threads |-> idle]
    /\ usersToBrokerMu = unlocked
    /\ transactionsToBrokerMu = unlocked
    /\ mu = unlocked
    /\ writeTx = noTx

NextThreads ==
    \E t \in Threads :
        \/ \E brokerID \in ThreadBrokerIDs : NewSessionBegin(t, brokerID)
        \/ NewSessionBrokerReturns(t)
        \/ TransactionsLock(t)
        \/ NewSessionStore(t)
        \/ \E sessionID \in ThreadSessionIDs : EndSessionBegin(t, sessionID)
        \/ \E sessionID \in ThreadSessionIDs : BrokerFromSessionIDBegin(t, sessionID)
        \/ TransactionsRLock(t)
        \/ TransactionsLookup(t)
        \/ EndSessionBrokerReturns(t)
        \/ EndSessionDelete(t)
        \/ \E brokerID \in ThreadBrokerIDs, username \in ThreadUsernames :
              SetDefaultBrokerForUserBegin(t, brokerID, username)
        \/ UsersLock(t)
        \/ SetDefaultBrokerForUserStore(t)
        \/ \E username \in ThreadUsernames : BrokerForUserBegin(t, username)
        \/ UsersRLock(t)
        \/ BrokerForUserRead(t)

SpecThreads == InitThreads /\ [][NextThreads]_vars

---------------------------------------------------------------------------
\* Read-only lookups of the cache

NotFound == [err |-> "NotFound"]

\* The UserPasswdShadow of a stored user: every field but LastLogin.
UserPasswdShadow(u) ==
    [Name |-> u.Name, UID |-> u.UID, Dir |-> u.Dir, Gecos |-> u.Gecos]

UserByName(buckets, name) ==
    IF name \in DOMAIN buckets[userByNameBucketName]
    THEN UserPasswdShadow(buckets[userByNameBucketName][name])
    ELSE NotFound

UserByID(buckets, uid) ==
    IF uintKey(uid) \in DOMAIN buckets[userByIDBucketName]
    THEN UserPasswdShadow(buckets[userByIDBucketName][uintKey(uid)])
    ELSE NotFound

\* The GIDs of the groups of a list, in its order.
gidsOf(groupContents) == [i \in 1..Len(groupContents) |-> groupContents[i].GID]

\* The buckets with every LastLogin set to zero.
withoutLastLogin(buckets) ==
    [buckets EXCEPT
        ![userByIDBucketName] = [k \in DOMAIN @ |-> [@[k] EXCEPT !.LastLogin = 0]],
        ![userByNameBucketName] = [k \in DOMAIN @ |-> [@[k] EXCEPT !.LastLogin = 0]]]

---------------------------------------------------------------------------
\* Stores whose membership edges have drifted apart

DriftGroupLists ==
    LET users == [Name |-> "users", GID |-> 100]
        dev == [Name |-> "dev", GID |-> 2000]
    IN {<<>>, <<users>>, <<dev>>, <<users, dev>>}

\* What an edit of the store from outside does to the reverse edge of a
\* group: nothing, the removal of one UID, or the removal of the record.
Drifts == {"none", "no edge"} \cup {uintKey(uid) : uid \in UIDs}

driftEdge(buckets, gid, drift) ==
    LET edges == buckets[groupToUsersBucketName]
        key == uintKey(gid)
    IN IF drift = "none" \/ key \notin DOMAIN edges THEN buckets
       ELSE IF drift = "no edge"
       THEN [buckets EXCEPT ![groupToUsersBucketName] =
                [k \in DOMAIN edges \ {key} |-> edges[k]]]
       ELSE [buckets EXCEPT ![groupToUsersBucketName][key].UIDs =
                SelectSeq(@, LAMBDA uid : uintKey(uid) # drift)]

\* The stores two users' updates leave, after such edits of the edges of
\* the two groups.
DriftedDBs ==
    {driftEdge(driftEdge(
         afterUpdateUserEntry(afterUpdateUserEntry(emptyDB, u1, gs1, 0), u2, gs2, 0),
         100, d1), 2000, d2) :
        <<u1, gs1, u2, gs2, d1, d2>> \in
            {u \in MemberUserDBs : u.Name = "alice"} \X DriftGroupLists \X
            {u \in MemberUserDBs : u.Name = "bob"} \X DriftGroupLists \X
            Drifts \X Drifts}

InitDrifted ==
    /\ db \in DriftedDBs
    /\ now = 0
    /\ last = [op |-> "none", err |-> nil, homedirKept |-> FALSE, dirty |-> FALSE,
               repaired |-> FALSE]
    /\ brokers = [id \in {} |-> ""]
    /\ brokersOrder = <<>>
    /\ transactionsToBroker = [id \in {} |-> ""]
    /\ usersToBroker = [id \in {} |-> ""]
    /\ lastM = [op |-> "none"]
    /\ brokerSessions = noBrokerSessions
    /\ pc = [t \in Threads |-> idle]
    /\ usersToBrokerMu = unlocked
    /\ transactionsToBrokerMu = unlocked
    /\ mu = unlocked
    /\ writeTx = noTx

NextDrifted ==
    \E usr \in MemberUserDBs, groupContents \in DriftGroupLists :
        UpdateUserEntry(usr, groupContents)

SpecDrifted == InitDrifted /\ [][NextDrifted]_vars

---------------------------------------------------------------------------
\* update.go: UpdateBrokerForUser

\* The broker IDs UpdateBrokerForUser is given; the cache does not resolve them.
PinBrokerIDs == {localBrokerName, "example-broker"}
PinUsernames == Names \cup {"carol"}
PinUserDBs ==
    {[Name |-> n, UID |-> u, Dir |-> "/home/alice", Gecos |-> "Alice"] :
        <<n, u>> \in {<<"alice", 1000>>, <<"bob", 1001>>, <<"bob", 1000>>}}
PinGroupLists == {<<>>, <<[Name |-> "users", GID |-> 100]>>}

\* A transaction that replaces the whole user_to_broker bucket by the new pin.
updateBrokerForUserTxAlone(buckets, uid, brokerID) ==
    [err |-> nil,
     buckets |-> [buckets EXCEPT ![userToBrokerBucketName] = (uintKey(uid) :> brokerID)]]

\* The function UpdateBrokerForUser gives to db.Update, for the UID it
\* looked up before.
updateBrokerForUserTx(buckets, uid, brokerID) ==
    [err |-> nil,
     buckets |-> updateBucket(buckets, userToBrokerBucketName, uintKey(uid), brokerID)]

\* Cache.UpdateBrokerForUser run alone: its error and the buckets after it.
updateBrokerForUserOutcome(buckets, username, brokerID) ==
    LET u == UserByName(buckets, username)
    IN IF u = NotFound
       THEN [err |-> NotFound.err, buckets |-> buckets]
       ELSE LET res == updateBrokerForUserTx(buckets, u.UID, brokerID)
            IN [err |-> res.err, buckets |-> dbUpdate(buckets, res)]

UpdateBrokerForUser(username, brokerID) ==
    LET r == updateBrokerForUserOutcome(db, username, brokerID)
    IN /\ db' = r.buckets
       /\ last' = [op |-> "UpdateBrokerForUser", err |-> r.err,
                   homedirKept |-> FALSE, dirty |-> FALSE, repaired |-> FALSE]
       /\ UNCHANGED <<now, managerVars, threadVars>>

\* The cache under calls of UpdateUserEntry and UpdateBrokerForUser.
NextBrokerPin ==
    \/ \E usr \in PinUserDBs, groupContents \in PinGroupLists :
          UpdateUserEntry(usr, groupContents)
    \/ \E username \in PinUsernames, brokerID \in PinBrokerIDs :
          UpdateBrokerForUser(username, brokerID)

SpecBrokerPin == Init /\ [][NextBrokerPin]_vars

---------------------------------------------------------------------------
\* update.go: UpdateUserEntry and UpdateBrokerForUser run by concurrent
\* threads, one step per lock operation, transaction boundary and phase of
\* the transaction function

\* What the cache's threads leave alone.
managerThreadVars == <<managerVars, usersToBrokerMu, transactionsToBrokerMu>>

\* A store whose open read-write transaction writes through to the
\* committed buckets.
committedDuringTxWrittenThrough(committed, txBuckets) == txBuckets

\* What a transaction begun now sees while a read-write transaction whose
\* buckets are txBuckets is open: the writes made through the buckets of
\* getAllBuckets(tx) stay in that transaction until db.Update commits.
committedDuringTx(committed, txBuckets) == committed

\* A write path that does not take the cache lock.
enterWritePathUnlocked(m, t) == m

\* c.mu.RLock(), the first statement of UpdateUserEntry and of
\* UpdateBrokerForUser; the deferred RUnlock runs when they return.
enterWritePath(m, t) == rLock(m, t)

\* c.mu.RLock() of UpdateUserEntry, and its userDB with time.Now().
UpdateUserEntryRLock(t, usr, groupContents) ==
    /\ pc[t] = idle
    /\ canRLock(mu)
    /\ mu' = enterWritePath(mu, t)
    /\ pc' = [pc EXCEPT ![t] = [op |-> "UpdateUserEntry", at |-> "Update",
                                userDB |-> userDBAt(usr, now),
                                groupContents |-> groupContents, err |-> nil]]
    /\ UNCHANGED <<cacheVars, managerThreadVars, writeTx>>

\* c.db.Update begins: the database's only read-write transaction is
\* opened, and UpdateUserEntry reads the groups stored for its user.
DBUpdateBegin(t) ==
    /\ pc[t].at = "Update"
    /\ writeTx = noTx
    /\ writeTx' = [owner |-> t, base |-> db, buckets |-> db]
    /\ pc' = [pc EXCEPT ![t] =
                 IF pc[t].op = "UpdateUserEntry"
                 THEN [pc[t] EXCEPT !.at = "updateUser"] @@
                      [previousGIDs |->
                          getFromBucket(db[userToGroupsBucketName],
                                        uintKey(pc[t].userDB.UID),
                                        zeroUserToGroups).GIDs]
                 ELSE [pc[t] EXCEPT !.at = "updateBucket"]]
    /\ UNCHANGED <<cacheVars, managerThreadVars, mu>>

\* A phase of the transaction function returned res: on error db.Update
\* rolls back and the call goes to its deferred RUnlock, otherwise the
\* function goes on at next.
txPhase(t, res, next) ==
    IF res.err # nil
    THEN /\ writeTx' = noTx
         /\ db' = writeTx.base
         /\ pc' = [pc EXCEPT ![t].at = "RUnlock", ![t].err = res.err]
    ELSE /\ writeTx' = [writeTx EXCEPT !.buckets = res.buckets]
         /\ db' = committedDuringTx(db, res.buckets)
         /\ pc' = [pc EXCEPT ![t].at = next]

TxUpdateUser(t) ==
    /\ pc[t].op = "UpdateUserEntry" /\ pc[t].at = "updateUser"
    /\ writeTx.owner = t
    /\ txPhase(t, updateUser(writeTx.buckets, pc[t].userDB), "updateGroups")
    /\ UNCHANGED <<now, last, managerThreadVars, mu>>

TxUpdateGroups(t) ==
    /\ pc[t].op = "UpdateUserEntry" /\ pc[t].at = "updateGroups"
    /\ writeTx.owner = t
    /\ txPhase(t, updateGroups(writeTx.buckets, pc[t].groupContents),
               "addUserToGroups")
    /\ UNCHANGED <<now, last, managerThreadVars, mu>>

\* updateUsersAndGroups: its first loop, its write of the forward edge and
\* its second loop.
TxAddUserToGroups(t) ==
    /\ pc[t].op = "UpdateUserEntry" /\ pc[t].at = "addUserToGroups"
    /\ writeTx.owner = t
    /\ txPhase(t, [err |-> nil,
                   buckets |-> addUserToGroups(writeTx.buckets, pc[t].userDB.UID,
                                               pc[t].groupContents)],
               "userToGroups")
    /\ UNCHANGED <<now, last, managerThreadVars, mu>>

TxWriteUserToGroups(t) ==
    /\ pc[t].op = "UpdateUserEntry" /\ pc[t].at = "userToGroups"
    /\ writeTx.owner = t
    /\ txPhase(t, [err |-> nil,
                   buckets |-> updateBucket(writeTx.buckets, userToGroupsBucketName,
                                            uintKey(pc[t].userDB.UID),
                                            [UID |-> pc[t].userDB.UID,
                                             GIDs |-> gidsOf(pc[t].groupContents)])],
               "removeFromPrevious")
    /\ UNCHANGED <<now, last, managerThreadVars, mu>>

TxRemoveUserFromPrevious(t) ==
    /\ pc[t].op = "UpdateUserEntry" /\ pc[t].at = "removeFromPrevious"
    /\ writeTx.owner = t
    /\ txPhase(t, [err |-> nil,
                   buckets |-> removeUserFromPrevious(writeTx.buckets,
                                                      pc[t].userDB.UID,
                                                      gidsOf(pc[t].groupContents),
                                                      pc[t].previousGIDs)],
               "commit")
    /\ UNCHANGED <<now, last, managerThreadVars, mu>>

\* The transaction function returned nil: db.Update commits.
DBCommit(t) ==
    /\ pc[t].at = "commit"
    /\ writeTx.owner = t
    /\ db' = writeTx.buckets
    /\ writeTx' = noTx
    /\ pc' = [pc EXCEPT ![t].at = "RUnlock"]
    /\ UNCHANGED <<now, last, managerThreadVars, mu>>

\* The deferred c.mu.RUnlock(), and the return.
CacheRUnlock(t) ==
    /\ pc[t].at = "RUnlock"
    /\ mu' = rUnlock(mu, t)
    /\ pc' = [pc EXCEPT ![t] = idle]
    /\ UNCHANGED <<cacheVars, managerThreadVars, writeTx>>

\* c.mu.RLock() of UpdateBrokerForUser.
UpdateBrokerForUserRLock(t, username, brokerID) ==
    /\ pc[t] = idle
    /\ canRLock(mu)
    /\ mu' = enterWritePath(mu, t)
    /\ pc' = [pc EXCEPT ![t] = [op |-> "UpdateBrokerForUser", at |-> "UserByName",
                                username |-> username, brokerID |-> brokerID,
                                err |-> nil]]
    /\ UNCHANGED <<cacheVars, managerThreadVars, writeTx>>

\* u, err := c.UserByName(username), in a transaction of its own.
UpdateBrokerForUserLookup(t) ==
    /\ pc[t].op = "UpdateBrokerForUser" /\ pc[t].at = "UserByName"
    /\ LET u == UserByName(db, pc[t].username)
       IN pc' = [pc EXCEPT ![t] =
                    IF u = NotFound
                    THEN [pc[t] EXCEPT !.at = "RUnlock", !.err = NotFound.err]
                    ELSE [pc[t] EXCEPT !.at = "Update"] @@ [uid |-> u.UID]]
    /\ UNCHANGED <<cacheVars, managerThreadVars, mu, writeTx>>

\* updateBucket(bucket, u.UID, brokerID) in the transaction.
TxUpdateBroker(t) ==
    /\ pc[t].op = "UpdateBrokerForUser" /\ pc[t].at = "updateBucket"
    /\ writeTx.owner = t
    /\ txPhase(t, updateBrokerForUserTx(writeTx.buckets, pc[t].uid, pc[t].brokerID),
               "commit")
    /\ UNCHANGED <<now, last, managerThreadVars, mu>>

\* The buckets in the order the reader of the model reads them.
BucketOrder ==
    <<userByIDBucketName, userByNameBucketName, groupByIDBucketName,
      groupByNameBucketName, userToGroupsBucketName, groupToUsersBucketName,
      userToBrokerBucketName>>

\* The state last committed: what the store holds apart from the writes of
\* the open read-write transaction.
lastCommitted == IF writeTx = noTx THEN db ELSE writeTx.base

\* A reader begins a read-only transaction: it sees the store as it is now
\* for as long as the transaction lasts.
ViewBegin(t) ==
    /\ pc[t] = idle
    /\ pc' = [pc EXCEPT ![t] = [op |-> "View", at |-> "reading", snapshot |-> db,
                                begin |-> lastCommitted,
                                view |-> [b \in {} |-> emptyBucket]]]
    /\ UNCHANGED <<cacheVars, managerThreadVars, mu, writeTx>>

\* The reader reads the next bucket.
ViewRead(t) ==
    /\ pc[t].op = "View"
    /\ DOMAIN pc[t].view # DOMAIN db
    /\ LET b == BucketOrder[Cardinality(DOMAIN pc[t].view) + 1]
       IN pc' = [pc EXCEPT ![t].view = @ @@ (b :> pc[t].snapshot[b])]
    /\ UNCHANGED <<cacheVars, managerThreadVars, mu, writeTx>>

\* The reader ends its transaction, every bucket read.
ViewEnd(t) ==
    /\ pc[t].op = "View"
    /\ DOMAIN pc[t].view = DOMAIN db
    /\ pc' = [pc EXCEPT ![t] = idle]
    /\ UNCHANGED <<cacheVars, managerThreadVars, mu, writeTx>>

\* An administrative operation takes the write side of c.mu, and releases it.
AdminLock(t) ==
    /\ pc[t] = idle
    /\ canLock(mu)
    /\ mu' = lock(mu, t)
    /\ pc' = [pc EXCEPT ![t] = [op |-> "Admin", at |-> "locked"]]
    /\ UNCHANGED <<cacheVars, managerThreadVars, writeTx>>

AdminUnlock(t) ==
    /\ pc[t].op = "Admin" /\ pc[t].at = "locked"
    /\ mu' = unlock(mu, t)
    /\ pc' = [pc EXCEPT ![t] = idle]
    /\ UNCHANGED <<cacheVars, managerThreadVars, writeTx>>

\* The threads that call the cache.
CacheThreads == {"t1", "t2"}

\* A writer and a reader of the cache.
IsolationUserDBs == {u \in MemberUserDBs : u.Name = "alice"}
IsolationGroupLists ==
    {<<[Name |-> "users", GID |-> 100]>>, <<[Name |-> "dev", GID |-> 2000]>>,
     <<[Name |-> "staff", GID |-> 100]>>}

NextIsolation ==
    \E t \in CacheThreads :
        \/ \E usr \in IsolationUserDBs, groupContents \in IsolationGroupLists :
              UpdateUserEntryRLock(t, usr, groupContents)
        \/ DBUpdateBegin(t)
        \/ TxUpdateUser(t)
        \/ TxUpdateGroups(t)
        \/ TxAddUserToGroups(t)
        \/ TxWriteUserToGroups(t)
        \/ TxRemoveUserFromPrevious(t)
        \/ DBCommit(t)
        \/ CacheRUnlock(t)
        \/ ViewBegin(t)
        \/ ViewRead(t)
        \/ ViewEnd(t)

SpecIsolation == Init /\ [][NextIsolation]_vars

\* Two write paths and an administrative operation on the cache.
CacheLockUserDBs ==
    {[Name |-> "bob", UID |-> u, Dir |-> "/home/alice", Gecos |-> "Alice"] :
        u \in {1000, 1001}}
CacheLockGroupLists ==
    {<<>>, <<[Name |-> "users", GID |-> 100]>>, <<[Name |-> "staff", GID |-> 100]>>}
CacheLockUsernames == {"bob", "carol"}
CacheLockBrokerIDs == {"example-broker"}

NextCacheLock ==
    \E t \in CacheThreads :
        \/ \E usr \in CacheLockUserDBs, groupContents \in CacheLockGroupLists :
              UpdateUserEntryRLock(t, usr, groupContents)
        \/ \E username \in CacheLockUsernames, brokerID \in CacheLockBrokerIDs :
              UpdateBrokerForUserRLock(t, username, brokerID)
        \/ UpdateBrokerForUserLookup(t)
        \/ DBUpdateBegin(t)
        \/ TxUpdateUser(t)
        \/ TxUpdateGroups(t)
        \/ TxAddUserToGroups(t)
        \/ TxWriteUserToGroups(t)
        \/ TxRemoveUserFromPrevious(t)
        \/ TxUpdateBroker(t)
        \/ DBCommit(t)
        \/ CacheRUnlock(t)
        \/ AdminLock(t)
        \/ AdminUnlock(t)

SpecCacheLock == Init /\ [][NextCacheLock]_vars

---------------------------------------------------------------------------
\* Claims

\* C1: dual-index consistency. Every record of user_by_id is found under its
\* name in user_by_name with the same UID, every record of user_by_name is
\* found under its UID in user_by_id with the same name, and the same holds
\* between group_by_id and group_by_name.
DualIndexConsistency ==
    /\ \A k \in DOMAIN db[userByIDBucketName] :
          LET u == db[userByIDBucketName][k]
          IN /\ u.Name \in DOMAIN db[userByNameBucketName]
             /\ db[userByNameBucketName][u.Name].UID = u.UID
    /\ \A n \in DOMAIN db[userByNameBucketName] :
          LET u == db[userByNameBucketName][n]
          IN /\ uintKey(u.UID) \in DOMAIN db[userByIDBucketName]
             /\ db[userByIDBucketName][uintKey(u.UID)].Name = n
    /\ \A k \in DOMAIN db[groupByIDBucketName] :
          LET g == db[groupByIDBucketName][k]
          IN /\ g.Name \in DOMAIN db[groupByNameBucketName]
             /\ db[groupByNameBucketName][g.Name].GID = g.GID
    /\ \A n \in DOMAIN db[groupByNameBucketName] :
          LET g == db[groupByNameBucketName][n]
          IN /\ uintKey(g.GID) \in DOMAIN db[groupByIDBucketName]
             /\ db[groupByIDBucketName][uintKey(g.GID)].Name = n

\* C2: bidirectional membership. A GID is in the forward edge of a UID
\* exactly when the UID is in the reverse edge of the GID.
BidirectionalMembership ==
    /\ \A k \in DOMAIN db[userToGroupsBucketName] :
          LET e == db[userToGroupsBucketName][k]
          IN \A i \in 1..Len(e.GIDs) :
                /\ uintKey(e.GIDs[i]) \in DOMAIN db[groupToUsersBucketName]
                /\ Contains(db[groupToUsersBucketName][uintKey(e.GIDs[i])].UIDs, e.UID)
    /\ \A k \in DOMAIN db[groupToUsersBucketName] :
          LET e == db[groupToUsersBucketName][k]
          IN \A i \in 1..Len(e.UIDs) :
                /\ uintKey(e.UIDs[i]) \in DOMAIN db[userToGroupsBucketName]
                /\ Contains(db[userToGroupsBucketName][uintKey(e.UIDs[i])].GIDs, e.GID)

\* C2 witness: a group with two members, a user in two groups, and a group
\* every member has left.
BidirectionalMembershipWitness ==
    /\ \E k \in DOMAIN db[groupToUsersBucketName] :
          Len(db[groupToUsersBucketName][k].UIDs) = 2
    /\ \E k \in DOMAIN db[userToGroupsBucketName] :
          Len(db[userToGroupsBucketName][k].GIDs) = 2
    /\ \E k \in DOMAIN db[groupToUsersBucketName] :
          db[groupToUsersBucketName][k].UIDs = <<>>

\* C3: identity stability. Whatever UpdateUserEntry is called next, every
\* UID keeps the name it is bound to and every GID its group name, and a
\* call whose user or one of whose groups would rebind one returns an error.
IdentityStability ==
    \A usr \in IdentityUserDBs, groupContents \in IdentityGroupLists :
        LET res == updateUserEntryTx(db, userDBAt(usr, now), groupContents)
            post == dbUpdate(db, res)
            existingUser == getFromBucket(db[userByIDBucketName], uintKey(usr.UID),
                                          zeroUser)
        IN /\ \A k \in DOMAIN db[userByIDBucketName] :
                 /\ k \in DOMAIN post[userByIDBucketName]
                 /\ post[userByIDBucketName][k].Name = db[userByIDBucketName][k].Name
           /\ \A k \in DOMAIN db[groupByIDBucketName] :
                 /\ k \in DOMAIN post[groupByIDBucketName]
                 /\ post[groupByIDBucketName][k].Name = db[groupByIDBucketName][k].Name
           /\ (existingUser.Name # "" /\ existingUser.Name # usr.Name)
                 => res.err = ErrUID
           /\ (\E i \in 1..Len(groupContents) :
                  LET existingGroup ==
                          getFromBucket(db[groupByIDBucketName],
                                        uintKey(groupContents[i].GID), zeroGroup)
                  IN existingGroup.Name # ""
                     /\ existingGroup.Name # groupContents[i].Name)
                 => res.err \in {ErrUID, ErrGID}

\* C3 witness: a call was refused because its UID belongs to another name.
IdentityStabilityWitness ==
    /\ last.op = "UpdateUserEntry"
    /\ last.err = ErrUID
    /\ db[userByIDBucketName] # emptyBucket

\* C4: a conflict abort is atomic. A call that returns the UID or the GID
\* conflict error leaves the seven buckets as they were: the name it was
\* refused for is still not found when it was not before, and every user
\* record reads as before.
ConflictAbortIsAtomic ==
    \A usr \in IdentityUserDBs, groupContents \in IdentityGroupLists :
        LET res == updateUserEntryTx(db, userDBAt(usr, now), groupContents)
            post == dbUpdate(db, res)
        IN res.err \in {ErrUID, ErrGID} =>
              /\ post = db
              /\ UserByName(db, usr.Name) = NotFound
                    => UserByName(post, usr.Name) = NotFound
              /\ \A n \in Names : UserByName(post, n) = UserByName(db, n)
              /\ \A uid \in UIDs : UserByID(post, uid) = UserByID(db, uid)

\* C4 witness: a call was refused for a group after its user records (and
\* any earlier group) had been written in the transaction.
ConflictAbortIsAtomicWitness ==
    /\ last.op = "UpdateUserEntry"
    /\ last.err = ErrGID
    /\ last.dirty

\* C5: home-directory stickiness. A user stored with a non-empty home
\* directory keeps it through every later successful update of that user,
\* whatever home directory the update carries, read by UID and by name.
HomeDirSticky ==
    \A usr \in FieldUserDBs, groupContents \in FieldGroupLists :
        LET existingUser == getFromBucket(db[userByIDBucketName], uintKey(usr.UID),
                                          zeroUser)
            res == updateUserEntryTx(db, userDBAt(usr, now), groupContents)
            post == dbUpdate(db, res)
        IN (existingUser.Name = usr.Name /\ existingUser.Dir # "" /\ res.err = nil) =>
              /\ UserByID(post, usr.UID).Dir = existingUser.Dir
              /\ UserByName(post, usr.Name).Dir = existingUser.Dir

\* C5 witness: an update carrying another home directory was committed and
\* the cached one was kept.
HomeDirStickyWitness ==
    /\ last.op = "UpdateUserEntry"
    /\ last.err = nil
    /\ last.homedirKept

\* C6, as claimed: after a successful UpdateUserEntry(u, gs), UserByName(u.name)
\* and UserByID(u.uid) both return u.
RoundTrip ==
    \A usr \in FieldUserDBs, groupContents \in FieldGroupLists :
        LET res == updateUserEntryTx(db, userDBAt(usr, now), groupContents)
            post == dbUpdate(db, res)
        IN res.err = nil =>
              /\ UserByName(post, usr.Name) = usr
              /\ UserByID(post, usr.UID) = usr

\* C6, amended: after a successful UpdateUserEntry(u, gs), UserByName(u.name)
\* and UserByID(u.uid) both return u, except that the home directory is the
\* one already stored under u.uid when that one is not empty.
RoundTripKeepingHomeDir ==
    \A usr \in FieldUserDBs, groupContents \in FieldGroupLists :
        LET existingUser == getFromBucket(db[userByIDBucketName], uintKey(usr.UID),
                                          zeroUser)
            expected == [usr EXCEPT !.Dir = IF existingUser.Dir # ""
                                            THEN existingUser.Dir ELSE @]
            res == updateUserEntryTx(db, userDBAt(usr, now), groupContents)
            post == dbUpdate(db, res)
        IN res.err = nil =>
              /\ UserByName(post, usr.Name) = expected
              /\ UserByID(post, usr.UID) = expected

\* C6 witness: a committed update whose home directory was replaced by the
\* cached one, its user reading the same by name and by UID.
RoundTripWitness ==
    /\ last.op = "UpdateUserEntry"
    /\ last.err = nil
    /\ last.homedirKept
    /\ \E u \in FieldUserDBs :
          /\ u.Dir # ""
          /\ UserByName(db, u.Name) = u
          /\ UserByID(db, u.UID) = u

\* C7: idempotence. UpdateUserEntry(u, gs) applied a second time, at the
\* same time or later, leaves the seven buckets as the first application
\* did but for LastLogin, and no reverse edge holds a UID twice.
Idempotence ==
    \A usr \in IdentityUserDBs, groupContents \in IdentityGroupLists :
        LET once == afterUpdateUserEntry(db, usr, groupContents, now)
        IN \A later \in now..MaxTime :
              LET twice == afterUpdateUserEntry(once, usr, groupContents, later)
              IN /\ withoutLastLogin(twice) = withoutLastLogin(once)
                 /\ \A k \in DOMAIN twice[groupToUsersBucketName] :
                       LET uids == twice[groupToUsersBucketName][k].UIDs
                       IN \A i, j \in 1..Len(uids) : uids[i] = uids[j] => i = j

\* C7 witness: a committed state with members that some call leaves as it
\* is: the state that call produced when it was first applied.
IdempotenceWitness ==
    /\ last.op = "UpdateUserEntry"
    /\ last.err = nil
    /\ \E usr \in IdentityUserDBs, groupContents \in IdentityGroupLists :
          /\ Len(groupContents) = 2
          /\ errUpdateUserEntry(db, usr, groupContents) = nil
          /\ afterUpdateUserEntry(db, usr, groupContents, now) = db

\* C8: membership shrink. A successful update stores the new GIDs in the
\* order given; the user is no member any more of a group it has left, and
\* that group keeps its edge (empty when the user was its only member) and
\* its record.
MembershipShrink ==
    \A usr \in MemberUserDBs, groupContents \in GroupLists :
        LET old == getFromBucket(db[userToGroupsBucketName], uintKey(usr.UID),
                                 zeroUserToGroups).GIDs
            new == gidsOf(groupContents)
            res == updateUserEntryTx(db, userDBAt(usr, now), groupContents)
            post == dbUpdate(db, res)
        IN res.err = nil =>
              /\ post[userToGroupsBucketName][uintKey(usr.UID)].GIDs = new
              /\ \A i \in 1..Len(old) :
                    ~Contains(new, old[i]) =>
                       LET k == uintKey(old[i])
                       IN /\ k \in DOMAIN post[groupToUsersBucketName]
                          /\ ~Contains(post[groupToUsersBucketName][k].UIDs, usr.UID)
                          /\ db[groupToUsersBucketName][k].UIDs = <<usr.UID>>
                                => post[groupToUsersBucketName][k].UIDs = <<>>
                          /\ k \in DOMAIN post[groupByIDBucketName]
                          /\ post[groupByIDBucketName][k] = db[groupByIDBucketName][k]

\* C8 witness: after a committed update, a user with one group left and a
\* group that lost its last member and still resolves.
MembershipShrinkWitness ==
    /\ last.op = "UpdateUserEntry"
    /\ last.err = nil
    /\ \E k \in DOMAIN db[userToGroupsBucketName] :
          Len(db[userToGroupsBucketName][k].GIDs) = 1
    /\ \E k \in DOMAIN db[groupToUsersBucketName] :
          /\ db[groupToUsersBucketName][k].UIDs = <<>>
          /\ k \in DOMAIN db[groupByIDBucketName]

\* C9: session lifecycle.  For every non-empty session id sid and every
\* step of the Manager: (a) when NewSession(broker_id, ...) has just
\* succeeded with sid, BrokerFromSessionID(sid) returns the broker
\* registered under broker_id; (b) a bound sid keeps the broker it is
\* bound to across every step other than a successful EndSession(sid);
\* (c) when EndSession(sid) has just succeeded, BrokerFromSessionID(sid)
\* returns NotFound; (d) an unbound sid stays NotFound across every step
\* other than a NewSession that returns it.
SessionLifecycle ==
    [][\A sid \in SessionIDs \ {""} :
          LET newSessionReturned == /\ lastM'.op = "NewSession"
                                    /\ lastM'.err = nil
                                    /\ lastM'.sessionID = sid
              endSessionSucceeded == /\ lastM'.op = "EndSession"
                                     /\ lastM'.err = nil
                                     /\ lastM'.sessionID = sid
              before == BrokerFromSessionID(brokers, transactionsToBroker, sid)
              after == BrokerFromSessionID(brokers', transactionsToBroker', sid)
          IN /\ newSessionReturned =>
                    after = [broker |-> brokers[lastM'.brokerID].ID, err |-> nil]
             /\ (before.err = nil /\ ~endSessionSucceeded) => after = before
             /\ endSessionSucceeded => after.err = ErrNoSession
             /\ (before.err = ErrNoSession /\ ~newSessionReturned) =>
                    after.err = ErrNoSession]_vars

\* C10: a NewSession that fails leaves the index untouched.  In every
\* reachable state of the Manager and for every broker_id and every answer
\* of the broker: when broker_id is not in the registry, NewSession returns
\* InvalidBroker without calling the broker, and when the broker's
\* new_session fails, NewSession returns that error; in both cases the
\* session id and the key returned are empty and transactions_to_broker is
\* exactly as before the call.
NewSessionFailureLeavesIndex ==
    \A brokerID \in BrokerIDs, reply \in NewSessionReplies :
        LET r == newSessionOutcome(brokers, transactionsToBroker, brokerID, reply)
        IN /\ brokerID \notin DOMAIN brokers =>
                  /\ r.err = ErrInvalidBroker
                  /\ ~r.called
                  /\ r.sessionID = "" /\ r.encryptionKey = ""
                  /\ r.transactionsToBroker = transactionsToBroker
           /\ (brokerID \in DOMAIN brokers /\ reply.err # nil) =>
                  /\ r.err = reply.err
                  /\ r.called
                  /\ r.sessionID = "" /\ r.encryptionKey = ""
                  /\ r.transactionsToBroker = transactionsToBroker

\* A broker has just failed a NewSession while sessions are open, and the
\* open sessions are still there.
NewSessionFailureLeavesIndexWitness ==
    /\ lastM.op = "NewSession"
    /\ lastM.err = ErrBroker
    /\ lastM.called
    /\ lastM.sessionID = ""
    /\ transactionsToBroker # noSessions

\* C11: an EndSession that fails keeps the entry.  In every reachable state
\* of the Manager and for every session id: when the broker's end_session
\* fails, EndSession returns that error, the index is as before and
\* BrokerFromSessionID(sid) still returns the broker; when sid is unknown,
\* EndSession returns an error, no broker is called and the index is as
\* before.
EndSessionFailureKeepsEntry ==
    \A sessionID \in SessionIDs, replyErr \in EndSessionReplies :
        LET b == BrokerFromSessionID(brokers, transactionsToBroker, sessionID)
            r == endSessionOutcome(brokers, transactionsToBroker, sessionID, replyErr)
        IN /\ (b.err = nil /\ replyErr # nil) =>
                  /\ r.err = replyErr
                  /\ r.called
                  /\ r.transactionsToBroker = transactionsToBroker
                  /\ BrokerFromSessionID(brokers, r.transactionsToBroker, sessionID) = b
           /\ (sessionID # "" /\ sessionID \notin DOMAIN transactionsToBroker) =>
                  /\ r.err = ErrNoSession
                  /\ ~r.called
                  /\ r.transactionsToBroker = transactionsToBroker

\* C11 witness: the broker has just failed the EndSession of an open
\* session, which is still bound.
EndSessionFailureKeepsEntryWitness ==
    /\ lastM.op = "EndSession"
    /\ lastM.err = ErrBroker
    /\ lastM.called
    /\ lastM.sessionID # ""
    /\ lastM.sessionID \in DOMAIN transactionsToBroker

\* C12: the empty session id is a sentinel.  In every reachable state of the
\* Manager, whatever the index holds, BrokerFromSessionID("") returns the
\* local broker of the registry, without error.
EmptySessionIDIsLocal ==
    /\ localBrokerName \in DOMAIN brokers
    /\ BrokerFromSessionID(brokers, transactionsToBroker, "") =
           [broker |-> brokers[localBrokerName].ID, err |-> nil]

\* C12 witness: a broker other than the local one answered NewSession with
\* an empty session id, which the index now binds to that broker.
EmptySessionIDIsLocalWitness ==
    /\ "" \in DOMAIN transactionsToBroker
    /\ transactionsToBroker[""] # localBrokerName

\* C13: pin validation.  In every reachable state of the Manager and for
\* every broker_id and username: SetDefaultBrokerForUser with a broker_id
\* that is not in the registry returns InvalidBroker and leaves
\* users_to_broker as it is; with a registered one it succeeds, after which
\* BrokerForUser(username) is that broker and every other user's answer is
\* unchanged.  BrokerForUser of a user without pin is the "no preference"
\* value, and every pin references a broker of the registry.
PinValidation ==
    /\ \A brokerID \in BrokerIDs, username \in Usernames :
          LET r == setDefaultBrokerOutcome(brokers, usersToBroker, brokerID, username)
          IN /\ brokerID \notin DOMAIN brokers =>
                    /\ r.err = ErrInvalidBroker
                    /\ r.usersToBroker = usersToBroker
             /\ brokerID \in DOMAIN brokers =>
                    /\ r.err = nil
                    /\ BrokerForUser(r.usersToBroker, username) = brokers[brokerID].ID
                    /\ \A other \in Usernames \ {username} :
                          BrokerForUser(r.usersToBroker, other) =
                              BrokerForUser(usersToBroker, other)
    /\ \A username \in Usernames \ DOMAIN usersToBroker :
          BrokerForUser(usersToBroker, username) = nil
    /\ \A username \in DOMAIN usersToBroker :
          usersToBroker[username] \in DOMAIN brokers

\* C13 witness: a pin on an unknown broker has just been refused while one
\* user is pinned and another is not.
PinValidationWitness ==
    /\ lastM.op = "SetDefaultBrokerForUser"
    /\ lastM.err = ErrInvalidBroker
    /\ usersToBroker # noPins
    /\ Usernames \ DOMAIN usersToBroker # {}

\* C14: UpdateBrokerForUser(username, broker_id).  In every reachable state
\* of the cache: when username is not in user_by_name the call fails with
\* the lookup's error and every bucket is as before; when it is, the call
\* succeeds, user_to_broker holds broker_id under the UID that
\* user_by_name[username] holds, every other pin is as before and the six
\* other buckets are as before.
UpdateBrokerForUserFrame ==
    \A username \in PinUsernames, brokerID \in PinBrokerIDs :
        LET r == updateBrokerForUserOutcome(db, username, brokerID)
            pinsBefore == db[userToBrokerBucketName]
            pinsAfter == r.buckets[userToBrokerBucketName]
        IN /\ username \notin DOMAIN db[userByNameBucketName] =>
                  /\ r.err = NotFound.err
                  /\ r.buckets = db
           /\ username \in DOMAIN db[userByNameBucketName] =>
                  LET key == uintKey(db[userByNameBucketName][username].UID)
                  IN /\ r.err = nil
                     /\ DOMAIN pinsAfter = DOMAIN pinsBefore \cup {key}
                     /\ pinsAfter[key] = brokerID
                     /\ \A k \in DOMAIN pinsBefore \ {key} : pinsAfter[k] = pinsBefore[k]
                     /\ \A b \in DOMAIN db \ {userToBrokerBucketName} :
                           r.buckets[b] = db[b]

\* C14 witness: a pin has just been written while another UID holds a
\* different pin and groups are stored.
UpdateBrokerForUserFrameWitness ==
    /\ last.op = "UpdateBrokerForUser"
    /\ last.err = nil
    /\ \E k1, k2 \in DOMAIN db[userToBrokerBucketName] :
          db[userToBrokerBucketName][k1] # db[userToBrokerBucketName][k2]
    /\ DOMAIN db[groupToUsersBucketName] # {}

\* C16: registry ordering.  The Manager NewManager returns, whatever broker
\* configurations fail to load, is built without error; its AvailableBrokers
\* is the local broker followed by the names given (the regular files of
\* the configuration directory in os.ReadDir's order when none is given)
\* that loaded, in their order; every broker of AvailableBrokers is the one
\* its ID resolves to, in every state; and no step changes the registry.
RegistryOrdering ==
    /\ LET names == IF lastM.configuredBrokers = <<>>
                    THEN <<"example-broker", "other-broker">>
                    ELSE lastM.configuredBrokers
           loadedUpTo(k) == Cardinality({i \in 1..k : names[i] \notin lastM.broken})
           available == AvailableBrokers(brokers, brokersOrder)
       IN /\ lastM.op = "NewManager"
          /\ lastM.err = nil
          /\ available[1].ID = localBrokerName
          /\ Len(available) = 1 + loadedUpTo(Len(names))
          /\ \A k \in 1..Len(names) :
                names[k] \notin lastM.broken =>
                    available[1 + loadedUpTo(k)].ID = names[k]
    /\ [](\A i \in 1..Len(brokersOrder) :
             brokerFromID(brokers, AvailableBrokers(brokers, brokersOrder)[i].ID) =
                 [broker |-> brokersOrder[i], err |-> nil])
    /\ [][brokers' = brokers /\ brokersOrder' = brokersOrder]_vars

\* C16 witness: the Manager NewManager built by auto-detection from a
\* directory with two regular files and a subdirectory, where the
\* configuration of the first file failed to load.
RegistryOrderingWitness ==
    /\ lastM.op = "NewManager"
    /\ lastM.configuredBrokers = <<>>
    /\ lastM.broken = {"example-broker"}
    /\ brokersOrder = <<localBrokerName, "other-broker">>
    /\ DOMAIN brokers = {localBrokerName, "other-broker"}

\* C19: drift repair.  From every store, those included where the forward
\* edge of a UID lists a group whose reverse edge lacks the UID or does not
\* exist, a successful UpdateUserEntry(u, gs) leaves u.uid exactly once in
\* the reverse edge of every group of gs.
DriftRepair ==
    \A usr \in MemberUserDBs, groupContents \in DriftGroupLists :
        LET res == updateUserEntryTx(db, userDBAt(usr, now), groupContents)
            post == dbUpdate(db, res)
        IN res.err = nil =>
              \A i \in 1..Len(groupContents) :
                  LET key == uintKey(groupContents[i].GID)
                  IN /\ key \in DOMAIN post[groupToUsersBucketName]
                     /\ Cardinality({j \in 1..Len(post[groupToUsersBucketName][key].UIDs) :
                                        post[groupToUsersBucketName][key].UIDs[j] = usr.UID})
                            = 1

\* C19 witness: an update has just been committed for a user whose forward
\* edge already listed one of the groups given while that group's reverse
\* edge lacked the user, and the user is now in the reverse edge of every
\* group of its forward edge.
DriftRepairWitness ==
    /\ last.op = "UpdateUserEntry"
    /\ last.repaired
    /\ \E k \in DOMAIN db[userToGroupsBucketName] :
          LET edge == db[userToGroupsBucketName][k]
          IN /\ edge.GIDs # <<>>
             /\ \A i \in 1..Len(edge.GIDs) :
                   /\ uintKey(edge.GIDs[i]) \in DOMAIN db[groupToUsersBucketName]
                   /\ Contains(db[groupToUsersBucketName][uintKey(edge.GIDs[i])].UIDs,
                               edge.UID)

\* C17: lock discipline of the session index.  In every state of every
\* interleaving of NewSession, EndSession, BrokerFromSessionID,
\* SetDefaultBrokerForUser and BrokerForUser: a thread whose broker call is
\* in progress holds neither mutex; no thread holds both mutexes; no thread
\* that waits for the write side of a mutex holds its read side; a thread
\* that runs no call holds nothing; and whenever calls are running, one of
\* them can take a step (a thread in a broker call can, when the broker
\* answers), so none waits for a mutex forever held.
LockDiscipline ==
    /\ \A t \in Threads :
          /\ pc[t].at \in {"newSession", "endSession", "idle"} =>
                 ~holds(usersToBrokerMu, t) /\ ~holds(transactionsToBrokerMu, t)
          /\ ~(holds(usersToBrokerMu, t) /\ holds(transactionsToBrokerMu, t))
          /\ pc[t].at = "Lock" =>
                 /\ t \notin usersToBrokerMu.readers
                 /\ t \notin transactionsToBrokerMu.readers
    /\ \A m \in {usersToBrokerMu, transactionsToBrokerMu} :
          /\ Cardinality(m.writer) <= 1
          /\ m.writer # {} => m.readers = {}
    /\ (\E t \in Threads : pc[t] # idle) =>
          \E t \in Threads :
              \/ pc[t].at \in {"newSession", "endSession", "locked", "rlocked"}
              \/ /\ pc[t].at = "Lock"
                 /\ canLock(IF pc[t].op = "SetDefaultBrokerForUser"
                            THEN usersToBrokerMu ELSE transactionsToBrokerMu)
              \/ /\ pc[t].at = "RLock"
                 /\ canRLock(IF pc[t].op = "BrokerForUser"
                             THEN usersToBrokerMu ELSE transactionsToBrokerMu)

\* C17 witness: one thread waits for the broker's answer to endSession, a
\* second holds the write side of transactionsToBrokerMu and a third the
\* write side of usersToBrokerMu.
LockDisciplineWitness ==
    \E t1, t2, t3 \in Threads :
        /\ pc[t1].op = "EndSession" /\ pc[t1].at = "endSession"
        /\ t2 \in transactionsToBrokerMu.writer
        /\ t3 \in usersToBrokerMu.writer

\* C15: no partial update is observable.  In every state of every
\* interleaving of UpdateUserEntry calls and readers, what a reader has read
\* in its transaction is, bucket for bucket, the state that was committed
\* when the transaction began; and once it has read every bucket, every
\* user record it saw has its name index, every group record its name
\* index, and a GID is in the forward edge of a UID exactly when the UID is
\* in the reverse edge of the GID.
NoPartialUpdateObservable ==
    \A t \in Threads :
        pc[t].op = "View" =>
            LET view == pc[t].view
            IN /\ \A b \in DOMAIN view : view[b] = pc[t].begin[b]
               /\ DOMAIN view = DOMAIN db =>
                     /\ \A k \in DOMAIN view[userByIDBucketName] :
                           view[userByIDBucketName][k].Name
                               \in DOMAIN view[userByNameBucketName]
                     /\ \A k \in DOMAIN view[groupByIDBucketName] :
                           view[groupByIDBucketName][k].Name
                               \in DOMAIN view[groupByNameBucketName]
                     /\ \A uk \in DOMAIN view[userToGroupsBucketName],
                          gk \in DOMAIN view[groupToUsersBucketName] :
                           Contains(view[userToGroupsBucketName][uk].GIDs,
                                    view[groupToUsersBucketName][gk].GID)
                               <=> Contains(view[groupToUsersBucketName][gk].UIDs,
                                            view[userToGroupsBucketName][uk].UID)
                     /\ \A uk \in DOMAIN view[userToGroupsBucketName] :
                           \A i \in 1..Len(view[userToGroupsBucketName][uk].GIDs) :
                               uintKey(view[userToGroupsBucketName][uk].GIDs[i])
                                   \in DOMAIN view[groupToUsersBucketName]

\* C15 witness: a reader has read every bucket of the state before an
\* update whose transaction is open and has written the reverse edges but
\* not yet the forward edge.
NoPartialUpdateObservableWitness ==
    \E t \in Threads :
        /\ pc[t].op = "View"
        /\ DOMAIN pc[t].view = DOMAIN db
        /\ writeTx # noTx
        /\ pc[writeTx.owner].at = "userToGroups"
        /\ writeTx.buckets[groupToUsersBucketName]
               # pc[t].view[groupToUsersBucketName]
        /\ pc[t].view[userByIDBucketName] # emptyBucket

\* C18: two-layer cache locking.  In every state of every interleaving of
\* UpdateUserEntry, UpdateBrokerForUser and an administrative operation: a
\* thread inside a write path, and so the owner of the open read-write
\* transaction, holds the read side of the cache lock; while the write side
\* is held no transaction is open and no thread is inside a write path; and
\* at most one thread holds the write side.
TwoLayerCacheLocking ==
    /\ \A t \in Threads :
          pc[t].op \in {"UpdateUserEntry", "UpdateBrokerForUser"} => t \in mu.readers
    /\ writeTx # noTx =>
          /\ writeTx.owner \in mu.readers
          /\ pc[writeTx.owner].op \in {"UpdateUserEntry", "UpdateBrokerForUser"}
    /\ mu.writer # {} =>
          /\ writeTx = noTx
          /\ mu.readers = {}
          /\ \A t \in Threads :
                pc[t].op \notin {"UpdateUserEntry", "UpdateBrokerForUser"}
    /\ Cardinality(mu.writer) <= 1

\* C18 witness: two write paths hold the cache lock at the same time, one
\* inside its transaction and the other waiting for the store to let its
\* own begin.
TwoLayerCacheLockingWitness ==
    \E t1, t2 \in Threads :
        /\ t1 # t2
        /\ {t1, t2} \subseteq mu.readers
        /\ writeTx # noTx /\ writeTx.owner = t1
        /\ pc[t1].op = "UpdateUserEntry"
        /\ pc[t2].op = "UpdateBrokerForUser" /\ pc[t2].at = "Update"

\* C20: UpdateBrokerForUser is atomic with respect to concurrent
\* UpdateUserEntry calls.  Whenever an UpdateBrokerForUser is about to
\* commit its pin, the UID it writes the pin under is the UID that
\* user_by_name holds for its username in the store at that moment.
PinCommittedUnderCurrentUID ==
    \A t \in Threads :
        (pc[t].op = "UpdateBrokerForUser" /\ pc[t].at = "commit") =>
            /\ pc[t].username \in DOMAIN db[userByNameBucketName]
            /\ db[userByNameBucketName][pc[t].username].UID = pc[t].uid

---------------------------------------------------------------------------
\* Sessions as the broker sees them: NewSession, EndSession and
\* BrokerFromSessionID step by step, with the broker keeping the sessions it
\* has opened and ended

\* The session IDs the broker hands out.  It hands out each of them once.
BrokerSessionIDs == {"session-1", "session-2"}
SessionBrokerIDs == {"example-broker", "unknown-broker"}

\* The sessions the broker has opened and not ended.
liveSessions(sessions) == {id \in DOMAIN sessions : sessions[id] = 0}

\* What the broker's newSession can answer: an error, or a session ID it has
\* not handed out before, which it records as open.
brokerNewSession(sessions) ==
    {[sessionID |-> "", encryptionKey |-> "", err |-> ErrBroker,
      sessions |-> sessions]}
    \cup {[sessionID |-> id, encryptionKey |-> "key", err |-> nil,
           sessions |-> sessions @@ (id :> 0)] :
             id \in BrokerSessionIDs \ DOMAIN sessions}

\* What the broker's endSession can answer for a session it has opened: an
\* error, or success, which it counts.  Whether it accepts to end a session
\* it has already ended is the broker's choice, so both answers are possible
\* then.  The count stops at two.
brokerEndSession(sessions, sessionID) ==
    {[err |-> ErrBroker, sessions |-> sessions]}
    \cup {[err |-> nil,
           sessions |-> [sessions EXCEPT ![sessionID] =
                            IF sessions[sessionID] < 2 THEN sessions[sessionID] + 1
                            ELSE 2]] :
             id \in {sessionID} \cap DOMAIN sessions}

\* The broker answers newSession: on error NewSession returns, otherwise it
\* goes on to transactionsToBrokerMu.Lock().
BrokerNewSession(t) ==
    /\ pc[t].op = "NewSession" /\ pc[t].at = "newSession"
    /\ \E reply \in brokerNewSession(brokerSessions) :
          /\ brokerSessions' = reply.sessions
          /\ pc' = [pc EXCEPT ![t] =
                       IF reply.err # nil THEN idle
                       ELSE [op |-> "NewSession", at |-> "Lock",
                             broker |-> pc[t].broker,
                             sessionID |-> reply.sessionID]]
    /\ UNCHANGED <<cacheVars, brokers, brokersOrder, transactionsToBroker,
                   usersToBroker, lastM, threadLocks>>

\* The broker answers endSession: on error EndSession returns, otherwise it
\* goes on to transactionsToBrokerMu.Lock().
BrokerEndSession(t) ==
    /\ pc[t].op = "EndSession" /\ pc[t].at = "endSession"
    /\ \E reply \in brokerEndSession(brokerSessions, pc[t].sessionID) :
          /\ brokerSessions' = reply.sessions
          /\ pc' = [pc EXCEPT ![t] = IF reply.err # nil THEN idle
                                     ELSE [pc[t] EXCEPT !.at = "Lock"]]
    /\ UNCHANGED <<cacheVars, brokers, brokersOrder, transactionsToBroker,
                   usersToBroker, lastM, threadLocks>>

NextSessions ==
    \E t \in Threads :
        \/ \E brokerID \in SessionBrokerIDs : NewSessionBegin(t, brokerID)
        \/ BrokerNewSession(t)
        \/ TransactionsLock(t)
        \/ NewSessionStore(t)
        \/ \E sessionID \in BrokerSessionIDs : EndSessionBegin(t, sessionID)
        \/ \E sessionID \in BrokerSessionIDs : BrokerFromSessionIDBegin(t, sessionID)
        \/ TransactionsRLock(t)
        \/ TransactionsLookup(t)
        \/ BrokerEndSession(t)
        \/ EndSessionDelete(t)

SpecSessions == InitThreads /\ [][NextSessions]_vars

\* C21: session termination is exactly-once under concurrency.  In every
\* state of every interleaving of NewSession and EndSession calls, with each
\* session ID handed out by one successful newSession of the broker: the
\* broker's endSession has succeeded at most once for each session ID, and
\* every session ID in transactionsToBroker is one the broker has opened and
\* has not ended.
SessionEndedExactlyOnce ==
    /\ \A id \in DOMAIN brokerSessions : brokerSessions[id] <= 1
    /\ DOMAIN transactionsToBroker \subseteq liveSessions(brokerSessions)

====
